---- MODULE Spec2Model ----
(***************************************************************************)
(* PSD2 API Discovery: the crawl schedulers of the two client engines      *)
(* (scanWebsite, scanPortal in docs/js/api-discovery.js) and of the two    *)
(* Playwright scrapers (crawlSite), with their drivers (discoverApis,      *)
(* scrape), page analysis and deduplication.                               *)
(*                                                                         *)
(* Scores are integers in hundredths (0.25 is 25). A URL is a record       *)
(* [host, path]; a page is the vector of keyword match counts the          *)
(* engine's taxonomy finds in its text, plus its title.                    *)
(***************************************************************************)
EXTENDS Integers, Sequences, FiniteSets, TLC

\* ------------------------------------------------------------------ bounds
\* Largest maxDepth / maxPages value a caller (or config.json) passes.
MaxOpt == 2
\* Most links one page yields.
MaxLinks == 2
\* Most records in the lists given to the dedup and merge operations.
MaxRecs == 3
\* Largest page budget given to a Playwright crawl.
MaxPwPages == 3
\* --------------------------------------------------------------- constants
\* Constructor defaults of the first and of the second client engine.
DefaultMaxDepth1 == 2
DefaultMaxPages1 == 30
DefaultMaxDepth2 == 3
DefaultMaxPages2 == 50
\* Number of CORS proxies of the first and of the second client engine.
NumProxies1 == 2
NumProxies2 == 3
\* Playwright analyzePageContent: totalMatches / 20, and patternMatches < 5.
FullScoreMatches == 20
PatternThreshold == 5
\* isApiDetailPage: matchCount >= 3; calculateConfidence: 5 indicators.
DetailThreshold == 3
NumConfIndicators == 5

\* ------------------------------------------------------------------- URLs
Host == "bank.example"
Paths == {"/", "/api", "/docs"}
SiteUrls == [host : {Host}, path : Paths]
\* A seed that `new URL` (and page.goto) rejects.
BadUrl == [host |-> "", path |-> "not a url"]

\* The detailUrl of a product card without a link: null.
NullUrl == [host |-> "", path |-> "null"]
\* A page of the site whose URL holds no API keyword.
AboutUrl == [host |-> Host, path |-> "/about"]

\* new URL(u) succeeds.
Parses(u) == u.host # ""
\* `${parsedUrl.protocol}//${parsedUrl.hostname}`, new URL(url).origin
Origin(u) == [host |-> u.host, path |-> ""]

Min(a, b) == IF a < b THEN a ELSE b
Max(a, b) == IF a > b THEN a ELSE b

\* Sequences over S of length at most n.
SeqUpTo(S, n) == UNION {[1..k -> S] : k \in 0..n}
\* Those without a repeated element (what Array.from(new Set(..)) yields).
NoDup(s) == \A a, b \in DOMAIN s : s[a] = s[b] => a = b
LinkLists == {s \in SeqUpTo(SiteUrls, MaxLinks) : NoDup(s)}
\* The link lists a page gives the Playwright extractLinks.
PwLinkLists == {s \in SeqUpTo(SiteUrls \cup {AboutUrl}, MaxLinks) : NoDup(s)}

\* Array.prototype.sort is stable: entries of equal key keep their order.
\* For integer keys in 0..maxKey that is the concatenation of the buckets.
StableSort(s, Key(_)) ==
    LET keys == {Key(s[k]) : k \in DOMAIN s} \cup {0}
        maxKey == CHOOSE m \in keys : \A n \in keys : n <= m
        F[k \in 0..maxKey] ==
            IF k = 0 THEN SelectSeq(s, LAMBDA e : Key(e) = 0)
            ELSE F[k - 1] \o SelectSeq(s, LAMBDA e : Key(e) = k)
    IN F[maxKey]

\* ------------------------------------------------------------------ pages
\* Match counts per keyword category, the count of API-detail indicators
\* (ind), of the confidence indicators among them (cind), and the title.
PageBlank == [general |-> 0, ais |-> 0, pis |-> 0, caf |-> 0, tech |-> 0,
              oauth |-> 0, ind |-> 0, cind |-> 0, title |-> "Home"]
PageMixed == [general |-> 1, ais |-> 1, pis |-> 1, caf |-> 0, tech |-> 0,
              oauth |-> 0, ind |-> 0, cind |-> 0, title |-> "Open Banking"]
Pages == {PageBlank, PageMixed}

\* lowerTitle.includes('api') || .includes('psd2') || .includes('open banking')
TitleHasApi(title) == title \in {"Open Banking"}

\* ------------------------------------------------- first client engine
\* URL matches one of API_URL_PATTERNS.
isApiRelatedUrl(u) == u.path \in {"/api", "/docs"}

calculateRelevance(p, u) ==
    LET score == (IF p.general > 0 THEN 30 ELSE 0)
               + (IF p.ais > 0 THEN 25 ELSE 0)
               + (IF p.pis > 0 THEN 25 ELSE 0)
               + (IF p.caf > 0 THEN 20 ELSE 0)
               + (IF p.tech > 0 THEN 20 ELSE 0)
               + (IF isApiRelatedUrl(u) THEN 20 ELSE 0)
    IN Min(score, 100)

\* Variant: a score of 0.2 qualifies.
isApiRelated_atLeast(p, u) == calculateRelevance(p, u) >= 20

isApiRelated(p, u) == calculateRelevance(p, u) > 20

determineApiTypes(p) ==
    LET types == (IF p.ais > 0 THEN <<"AIS">> ELSE <<>>)
              \o (IF p.pis > 0 THEN <<"PIS">> ELSE <<>>)
              \o (IF p.caf > 0 THEN <<"CAF">> ELSE <<>>)
    IN IF types # <<>> THEN types
       ELSE IF p.general > 0 THEN <<"PSD2">> ELSE <<"Unknown">>

extractApis(p, sourceUrl, baseDomain) ==
    LET types == determineApiTypes(p)
    IN [k \in DOMAIN types |->
          [name |-> <<baseDomain.host, types[k]>>,
           url |-> baseDomain,
           source_page |-> sourceUrl,
           api_type |-> types[k],
           confidence_score |-> calculateRelevance(p, sourceUrl)]]

\* fetchWithProxy of the first engine for a URL that the proxies in `works`
\* answer: it starts at this.proxyIndex, moves on for good on a failure, and
\* throws after the last proxy. F[j] is the call with this.proxyIndex = j.
fetchWithProxy1(idx, works) ==
    LET F[k \in 0..(NumProxies1 - 1)] ==
            LET j == NumProxies1 - 1 - k
            IN  IF j \in works THEN [ok |-> TRUE, proxyIndex |-> j]
                ELSE IF j < NumProxies1 - 1 THEN F[k - 1]
                ELSE [ok |-> FALSE, proxyIndex |-> j]
    IN F[NumProxies1 - 1 - idx]

\* `${api.url}|${api.api_type}`
Key1(api) == <<api.url, api.api_type>>

\* Variant: nothing is removed.
deduplicateApis1_keepAll(apis) == apis

\* First engine: the first record of every key, in input order.
deduplicateApis1(apis) ==
    LET tagged == [k \in DOMAIN apis |-> [idx |-> k, api |-> apis[k]]]
        kept == SelectSeq(tagged,
                    LAMBDA e : \A j \in 1..(e.idx - 1) : Key1(apis[j]) # Key1(e.api))
    IN [k \in DOMAIN kept |-> kept[k].api]

\* ------------------------------------------------- second client engine
PageTypes == {"listing", "detail", "documentation", "other"}

\* fetchWithProxy(url, retryCount) of the second engine, from retryCount 0:
\* the proxy asked is (this.proxyIndex + retryCount) % maxRetries; a failure
\* retries with retryCount + 1 while retryCount < lastRetry, then throws.
\* The result tells whether a body came back and the proxies asked, in order.
tryProxies2(idx, works, lastRetry) ==
    LET F[k \in 0..lastRetry] ==
            LET retry == lastRetry - k
                proxy == (idx + retry) % NumProxies2
            IN  IF proxy \in works THEN [ok |-> TRUE, contacted |-> <<proxy>>]
                ELSE IF retry < lastRetry
                     THEN [ok |-> F[k - 1].ok,
                           contacted |-> <<proxy>> \o F[k - 1].contacted]
                     ELSE [ok |-> FALSE, contacted |-> <<proxy>>]
    IN F[lastRetry]

\* Variant: the retry test is retryCount < maxRetries.
fetchWithProxy2_extraRetry(idx, works) == tryProxies2(idx, works, NumProxies2)

\* The retry test is retryCount < maxRetries - 1.
fetchWithProxy2(idx, works) == tryProxies2(idx, works, NumProxies2 - 1)

\* The comparator's (priority[type] || 3): listing's priority 0 is falsy.
priority(type) ==
    CASE type = "listing" -> 3
      [] type = "detail" -> 1
      [] type = "documentation" -> 2
      [] OTHER -> 3

\* First type of API_TYPES (AIS, PIS, CAF, OAUTH) with a matching keyword.
detectApiType(p) ==
    IF p.ais > 0 THEN "AIS"
    ELSE IF p.pis > 0 THEN "PIS"
    ELSE IF p.caf > 0 THEN "CAF"
    ELSE IF p.oauth > 0 THEN "OAUTH"
    ELSE "PSD2"

isApiDetailPage(p) == p.ind >= 3

\* Variant: the sum is returned as it is.
calculateConfidence_unclamped(pageType, p, apiType) ==
    30 + (IF pageType = "documentation" THEN 30 ELSE 0)
       + (IF pageType = "detail" THEN 20 ELSE 0)
       + (IF apiType # "PSD2" THEN 20 ELSE 0)
       + p.cind * 5

calculateConfidence(pageType, p, apiType) ==
    LET score == 30
               + (IF pageType = "documentation" THEN 30 ELSE 0)
               + (IF pageType = "detail" THEN 20 ELSE 0)
               + (IF apiType # "PSD2" THEN 20 ELSE 0)
               + p.cind * 5
    IN Min(score, 100)

extractApiInfo(p, currentUrl, baseDomain, pageType) ==
    IF pageType = "detail" \/ pageType = "documentation" \/ isApiDetailPage(p)
    THEN << [name |-> <<p.title>>,
             url |-> baseDomain,
             source_page |-> currentUrl,
             api_type |-> detectApiType(p),
             confidence_score |-> calculateConfidence(pageType, p, detectApiType(p))] >>
    ELSE <<>>

\* `${api.name}|${api.api_type}`
Key2(api) == <<api.name, api.api_type>>

\* Variant: a record of equal score replaces the stored one too.
MapPut2_lastTie(seen, api) ==
    IF \E j \in DOMAIN seen : Key2(seen[j]) = Key2(api)
    THEN [j \in DOMAIN seen |->
            IF Key2(seen[j]) = Key2(api)
               /\ api.confidence_score >= seen[j].confidence_score
            THEN api ELSE seen[j]]
    ELSE Append(seen, api)

\* seen.set(key, api) when the key is new or api scores strictly higher; a
\* Map keeps a key at the position of its first insertion.
MapPut2(seen, api) ==
    IF \E j \in DOMAIN seen : Key2(seen[j]) = Key2(api)
    THEN [j \in DOMAIN seen |->
            IF Key2(seen[j]) = Key2(api)
               /\ api.confidence_score > seen[j].confidence_score
            THEN api ELSE seen[j]]
    ELSE Append(seen, api)

deduplicateApis2(apis) ==
    LET F[k \in 0..Len(apis)] ==
            IF k = 0 THEN <<>> ELSE MapPut2(F[k - 1], apis[k])
    IN F[Len(apis)]

\* The anchors of a fetched page, in document order: an array, so a URL may
\* repeat. An anchor's text is taken to be its path.
AnchorLists2 == SeqUpTo(SiteUrls, MaxLinks)

\* isProductLink(href, text): an API term in href or text, or a detail pattern.
isProductLink(u) == u.path \in {"/api"}

\* The type findRelevantLinks assigns from href and text.
linkType(u) ==
    CASE u.path = "/docs" -> "documentation"
      [] u.path = "/api" -> "detail"
      [] OTHER -> "other"

\* The product cards of a fetched page that parseProductCard keeps (a title
\* and API-related text), each by its link: none, a relative link to /api,
\* or an absolute link to a page of another host.
NoHref == "none"
OtherHref == "https://other.example/api"
CardLists2 == SeqUpTo({NoHref, "/api", OtherHref}, 1)

\* parseProductCard: detailUrl is the link resolved against the page's URL,
\* or null without a link. The host of the result is not looked at.
parseProductCard(card, currentUrl) ==
    CASE card = NoHref -> NullUrl
      [] card = OtherHref -> [host |-> "other.example", path |-> "/api"]
      [] OTHER -> [host |-> currentUrl.host, path |-> card]

\* extractProductListings: the detailUrls of the products. Every card, then
\* the product links whose URL no product has yet.
extractProductListings(cards, anchors, currentUrl) ==
    LET fromCards == [k \in DOMAIN cards |-> parseProductCard(cards[k], currentUrl)]
        tagged == [k \in DOMAIN anchors |-> [idx |-> k, url |-> anchors[k]]]
        kept == SelectSeq(tagged, LAMBDA e :
                    /\ isProductLink(e.url)
                    /\ \A j \in DOMAIN fromCards : fromCards[j] # e.url
                    /\ \A j \in 1..(e.idx - 1) : anchors[j] # e.url)
    IN fromCards \o [k \in DOMAIN kept |-> kept[k].url]

\* findRelevantLinks: typed links that are not yet visited.
findRelevantLinks(anchors, visitedNow) ==
    LET kept == SelectSeq(anchors, LAMBDA u : u \notin visitedNow /\ linkType(u) # "other")
    IN [k \in DOMAIN kept |-> [url |-> kept[k], type |-> linkType(kept[k])]]

\* ------------------------------------------------- Playwright scrapers
\* URL contains one of apiPathKeywords.
isApiRelatedUrlPw(u) == u.path \in {"/api", "/docs"}

\* getProviderName: the first label of the host name.
getProviderName(u) == u.host

\* Variant: the first category with a match names the type.
primaryApiType_firstMatch(p) ==
    IF p.general > 0 THEN "PSD2"
    ELSE IF p.ais > 0 THEN "AIS"
    ELSE IF p.pis > 0 THEN "PIS"
    ELSE IF p.caf > 0 THEN "CAF"
    ELSE "PSD2"

\* "Determine primary API type": PSD2 unless a later category has strictly
\* more matches than the best one before it.
primaryApiType(p) ==
    LET m0 == p.general
        t1 == IF p.ais > m0 THEN "AIS" ELSE "PSD2"
        m1 == Max(p.ais, m0)
        t2 == IF p.pis > m1 THEN "PIS" ELSE t1
        m2 == Max(p.pis, m1)
    IN IF p.caf > m2 THEN "CAF" ELSE t2

\* The record analyzePageContent emits for a qualifying page.
PwRecord(u, p, total) ==
    LET apiType == primaryApiType(p)
        c0 == Min(total * 5, 100)
        c1 == IF isApiRelatedUrlPw(u) THEN Min(c0 + 20, 100) ELSE c0
        c2 == IF TitleHasApi(p.title) THEN Min(c1 + 10, 100) ELSE c1
    IN IF c2 >= 30
       THEN << [name |-> <<getProviderName(u), apiType, "API">>,
                api_type |-> apiType,
                url |-> Origin(u),
                source_page |-> u,
                confidence_score |-> c2] >>
       ELSE <<>>

\* part_002: api_patterns (tech) boost the score but do not qualify alone.
analyzePageContent1(u, p) ==
    LET apiTypeMatches == p.general + p.ais + p.pis + p.caf
    IN IF apiTypeMatches = 0 /\ p.tech < 5 THEN <<>>
       ELSE PwRecord(u, p, apiTypeMatches + p.tech)

\* Variant: no test for zero matches.
analyzePageContent2_noGate(u, p) ==
    PwRecord(u, p, p.general + p.ais + p.pis + p.caf)

\* part_003: the four type categories only.
analyzePageContent2(u, p) ==
    LET totalMatches == p.general + p.ais + p.pis + p.caf
    IN IF totalMatches = 0 THEN <<>> ELSE PwRecord(u, p, totalMatches)

\* Host names and getBaseDomain: the last two labels of the host name.
DevHost == "developer.bank.example"
OtherHost == "other.example"
getBaseDomain(host) == IF host = DevHost THEN Host ELSE host

\* An href attribute of the page, resolved against the page URL: host, path
\* and fragment ("" when the href has none).
Hrefs == [host : {Host, DevHost, OtherHost}, path : {"/docs", "/guide.pdf"},
          hash : {"", "section"}]
HrefLists == SeqUpTo(Hrefs, MaxLinks)

\* hrefPattern /href=["']([^"'#]+)["']/ matches an attribute value only when
\* it holds no '#'.
hrefPatternMatches(h) == h.hash = ""

\* link.toLowerCase().endsWith(ext) for one of skipExtensions.
skipExtension(path) == path \in {"/guide.pdf"}

\* Playwright extractLinks: the matched hrefs of the same base domain that
\* are no skipped resource, each URL once, in document order.
extractLinksPw(baseUrl, hrefs) ==
    LET urlOf(h) == [host |-> h.host, path |-> h.path]
        matched == SelectSeq(hrefs, hrefPatternMatches)
        tagged == [k \in DOMAIN matched |-> [idx |-> k, h |-> matched[k]]]
        kept == SelectSeq(tagged, LAMBDA e :
                    /\ getBaseDomain(e.h.host) = getBaseDomain(baseUrl.host)
                    /\ ~skipExtension(e.h.path)
                    /\ \A j \in 1..(e.idx - 1) : urlOf(matched[j]) # urlOf(e.h))
    IN [k \in DOMAIN kept |-> urlOf(kept[k].h)]

\* links.sort: API-related URLs first, stable.
sortedLinks(links) ==
    StableSort(links, LAMBDA l : IF isApiRelatedUrlPw(l) THEN 0 ELSE 1)

\* Variant: the record already in the map stays.
MapSetBySourcePage_keepFirst(m, api) ==
    IF \E j \in DOMAIN m : m[j].source_page = api.source_page
    THEN m
    ELSE Append(m, api)

\* apiMap.set(api.source_page, api): the later record replaces the earlier,
\* at the position of the key's first insertion.
MapSetBySourcePage(m, api) ==
    IF \E j \in DOMAIN m : m[j].source_page = api.source_page
    THEN [j \in DOMAIN m |-> IF m[j].source_page = api.source_page THEN api ELSE m[j]]
    ELSE Append(m, api)

\* Variant: the merged list is written in map order.
mergedApis_unsorted(existingApis, newApis) ==
    LET all == existingApis \o newApis
        F[k \in 0..Len(all)] ==
            IF k = 0 THEN <<>> ELSE MapSetBySourcePage(F[k - 1], all[k])
    IN F[Len(all)]

\* scrape: merge the stored inventory with the new scan, sort by score.
mergedApis(existingApis, newApis) ==
    LET all == existingApis \o newApis
        F[k \in 0..Len(all)] ==
            IF k = 0 THEN <<>> ELSE MapSetBySourcePage(F[k - 1], all[k])
    IN StableSort(F[Len(all)], LAMBDA a : 100 - a.confidence_score)

\* ------------------------------------------------------------------ state
VARIABLES
    engine,         \* which implementation runs
    optMaxDepth,    \* options.maxDepth as the caller (or config.json) passes it
    optMaxPages,    \* options.maxPages / maxPagesPerSite as passed
    maxDepth,       \* this.maxDepth / the destructured maxDepth
    maxPages,       \* this.maxPages / maxPagesPerSite
    urls,           \* the input list
    i,              \* index (from 1) of the seed the driver loop is at
    pc,             \* where the run stands
    visited, toVisit, pagesScanned, discoveredApis,   \* locals of the site crawl
    apiRelatedPages,
    cur,            \* the entry dequeued in the running iteration
    proxyIndex,     \* this.proxyIndex
    retryCount,     \* retryCount of the pending fetchWithProxy call
    inFlight,       \* URLs with a request outstanding
    active,         \* seeds whose crawl has been called and has not settled
    scanResults, allApis,                             \* locals of the driver
    existingApis,   \* the inventory file scrape finds
    report,         \* what discoverApis returns / scrape writes
    fetchCount,     \* per URL, how often this crawl dequeued and loaded it
    procLog,        \* [url, depth] of the entries this crawl processed
    pageFailures,   \* how many pages of this crawl failed to load
    siteLog,        \* per settled seed: what its crawl had collected
    openPages,      \* Playwright: pages opened by context.newPage and not closed
    openContexts,   \* Playwright: contexts made by browser.newContext and not closed
    browserOpen,    \* Playwright: chromium.launch resolved, browser.close not run
    fnName,         \* the operation called on its own ("none" in a crawl)
    fnArgs,         \* its arguments
    fnRet           \* what it returned

vars == <<engine, optMaxDepth, optMaxPages, maxDepth, maxPages, urls, i, pc,
          visited, toVisit, pagesScanned, discoveredApis, apiRelatedPages, cur,
          proxyIndex, retryCount, inFlight, active, scanResults, allApis,
          existingApis, report, fetchCount, procLog, pageFailures, siteLog,
          openPages, openContexts, browserOpen, fnName, fnArgs, fnRet>>

\* A single call of one operation: its name, arguments and result.
call == <<fnName, fnArgs, fnRet>>
config == <<engine, optMaxDepth, optMaxPages, maxDepth, maxPages, urls, existingApis,
            call>>
driver == <<scanResults, allApis, report, siteLog, i, active>>
browserRes == <<openPages, openContexts, browserOpen>>

ClientEngines == {"client1", "client2"}
PwEngines == {"pw1", "pw2"}
Engines == ClientEngines \cup PwEngines
AllUrls == SiteUrls \cup {BadUrl, NullUrl, AboutUrl, [host |-> OtherHost, path |-> "/api"]}
NoEntry == [url |-> BadUrl, depth |-> 0]

\* options.x || dflt
OrDefault(x, dflt) == IF x = 0 THEN dflt ELSE x

\* startScan: parseInt(form value) || 2, || 30
startScanMaxDepth(form) == OrDefault(form, 2)
startScanMaxPages(form) == OrDefault(form, 30)

\* The constructors.
constructorMaxDepth(e, opt) ==
    OrDefault(opt, IF e = "client1" THEN DefaultMaxDepth1 ELSE DefaultMaxDepth2)
constructorMaxPages(e, opt) ==
    OrDefault(opt, IF e = "client1" THEN DefaultMaxPages1 ELSE DefaultMaxPages2)

\* The input lists: one seed, two seeds of the same origin, and an
\* unparsable seed before or after a good one.
RootUrl == [host |-> Host, path |-> "/"]
ApiUrl == [host |-> Host, path |-> "/api"]
InputLists == {<<RootUrl>>, <<ApiUrl>>, <<BadUrl>>,
               <<RootUrl, ApiUrl>>, <<BadUrl, RootUrl>>, <<ApiUrl, BadUrl>>}

\* No operation is called on its own during a crawl.
NoArgs == [kind |-> "none", stored |-> <<>>, scanned |-> <<>>, page |-> PageBlank,
           url |-> RootUrl, pageType |-> "other", hrefs |-> <<>>, queue |-> <<>>,
           proxyIndex |-> 0, works |-> {}]

Init ==
    /\ fnName = "none" /\ fnArgs = NoArgs /\ fnRet = <<>>
    /\ engine \in Engines
    /\ urls \in InputLists
    /\ IF engine \in ClientEngines
       THEN /\ optMaxDepth \in (0..MaxOpt) \cup {startScanMaxDepth(f) : f \in 0..MaxOpt}
            /\ optMaxPages \in (0..MaxOpt) \cup {startScanMaxPages(f) : f \in 0..MaxOpt}
            /\ maxDepth = constructorMaxDepth(engine, optMaxDepth)
            /\ maxPages = constructorMaxPages(engine, optMaxPages)
       ELSE /\ optMaxDepth \in 0..MaxOpt
            /\ optMaxPages \in 0..MaxPwPages
            /\ maxDepth = optMaxDepth
            /\ maxPages = optMaxPages
    /\ i = 1
    /\ pc = "idle"
    /\ visited = {}
    /\ toVisit = <<>>
    /\ pagesScanned = 0
    /\ discoveredApis = <<>>
    /\ apiRelatedPages = <<>>
    /\ existingApis = <<>>
    /\ cur = NoEntry
    /\ proxyIndex = 0
    /\ retryCount = 0
    /\ inFlight = {}
    /\ active = {}
    /\ scanResults = <<>>
    /\ allApis = <<>>
    /\ report = [status |-> "none"]
    /\ fetchCount = [u \in AllUrls |-> 0]
    /\ procLog = {}
    /\ pageFailures = 0
    /\ siteLog = <<>>
    /\ openPages = 0
    /\ openContexts = 0
    /\ browserOpen = (engine \in PwEngines)

\* Variant: the catch block reports the site as scanned.
ErrorResult_asSuccess(url) ==
    [url |-> url, status |-> "success", error |-> "message", apis |-> <<>>,
     pagesScanned |-> 0]

ErrorResult(url) ==
    [url |-> url, status |-> "error", error |-> "message", apis |-> <<>>,
     pagesScanned |-> 0]

\* The locals of a site crawl as it is called, and (unused) between crawls.
FreshLocals(queue) ==
    /\ visited' = {}
    /\ toVisit' = queue
    /\ pagesScanned' = 0
    /\ discoveredApis' = <<>>
    /\ apiRelatedPages' = <<>>
    /\ cur' = NoEntry
    /\ retryCount' = 0
    /\ inFlight' = {}
    /\ fetchCount' = [u \in AllUrls |-> 0]
    /\ procLog' = {}
    /\ pageFailures' = 0

\* Variant: the loop runs until the work list is empty.
loopCondition_noBudget == toVisit # <<>>

\* The while condition of the crawl loops.
loopCondition == toVisit # <<>> /\ pagesScanned < maxPages

\* Variant: a site whose crawl threw leaves no site result.
PushResult_dropsFailed(result, threw) ==
    /\ scanResults' = IF threw THEN scanResults ELSE Append(scanResults, result)
    /\ allApis' = allApis \o result.apis
    /\ siteLog' = IF threw THEN siteLog
                  ELSE Append(siteLog, [failed |-> pageFailures > 0, threw |-> threw,
                                        pending |-> loopCondition, stage |-> pc])
    /\ i' = i + 1
    /\ active' = active \ {i}
    /\ pc' = "idle"
    /\ visited' = {}
    /\ toVisit' = <<>>
    /\ pagesScanned' = 0
    /\ discoveredApis' = <<>>
    /\ apiRelatedPages' = <<>>
    /\ cur' = NoEntry
    /\ retryCount' = 0
    /\ inFlight' = {}
    /\ fetchCount' = [u \in AllUrls |-> 0]
    /\ procLog' = {}
    /\ pageFailures' = 0

\* The driver's loop body ends with `result` pushed (by its try block, or by
\* its catch block when the crawl threw) and moves to the next seed.
PushResult(result, threw) ==
    /\ scanResults' = Append(scanResults, result)
    /\ allApis' = allApis \o result.apis
    /\ siteLog' = Append(siteLog, [failed |-> pageFailures > 0, threw |-> threw,
                                   pending |-> loopCondition, stage |-> pc])
    /\ i' = i + 1
    /\ active' = active \ {i}
    /\ pc' = "idle"
    /\ FreshLocals(<<>>)

\* Variant: the entry goes on to be loaded without being marked visited.
MarkVisited_forgets(entry) ==
    /\ visited' = visited
    /\ cur' = entry
    /\ fetchCount' = [fetchCount EXCEPT ![entry.url] = @ + 1]
    /\ procLog' = procLog \cup {[url |-> entry.url, depth |-> entry.depth]}

\* The entry is marked visited and goes on to be loaded.
MarkVisited(entry) ==
    /\ visited' = visited \cup {entry.url}
    /\ cur' = entry
    /\ fetchCount' = [fetchCount EXCEPT ![entry.url] = @ + 1]
    /\ procLog' = procLog \cup {[url |-> entry.url, depth |-> entry.depth]}

\* Variant: the dequeue test looks at the depth only.
skipEntry_depthOnly(entry) == entry.depth > maxDepth

\* The dequeue test `visited.has(currentUrl) || depth > this.maxDepth`.
skipEntry(entry) == entry.url \in visited \/ entry.depth > maxDepth
\* The Playwright crawlSite tests `visited.has(url)` only.
\* Variant: the Playwright loop has no visited test.
skipEntryPw_never(entry) == FALSE

skipEntryPw(entry) == entry.url \in visited

\* Variant: links are queued at every depth.
mayFollow_always(depth) == TRUE

\* `if (depth < this.maxDepth)` before links are queued.
\* Variant: links are followed from pages at maxDepth too.
mayFollow_inclusive(depth) == depth <= maxDepth

mayFollow(depth) == depth < maxDepth

\* Variant: the page load is not awaited.
afterFetchStart_noAwait == "loop"

\* `await` of the page load: the iteration is suspended while the request
\* is outstanding.
afterFetchStart == "fetching"

\* Variant: the catch block gives the crawl up.
onPageError_abort == "aborted"

\* The catch block around one page: it logs, and the loop goes on.
onPageError == "loop"

\* ------------------------------------------- first client engine: crawl
\* discoverApis calls scanWebsite(url); new URL(startUrl) succeeds.
scanWebsite_begin ==
    /\ engine = "client1" /\ pc = "idle" /\ i <= Len(urls)
    /\ Parses(urls[i])
    /\ FreshLocals(<< [url |-> urls[i], depth |-> 0] >>)
    /\ active' = active \cup {i}
    /\ pc' = "loop"
    /\ UNCHANGED <<config, browserRes, proxyIndex, scanResults, allApis, report, siteLog, i>>

\* The catch block of discoverApis (both client engines): the crawl threw.
discoverApis_catch ==
    /\ engine \in ClientEngines /\ pc = "idle" /\ i <= Len(urls)
    /\ ~Parses(urls[i])
    /\ PushResult(ErrorResult(urls[i]), TRUE)
    /\ UNCHANGED <<config, browserRes, proxyIndex, report>>

\* Variant: the work list is left in arrival order.
sortToVisit1_noSort(queue) == queue

\* The sort of scanWebsite: API-looking URLs first, then by depth.
sortToVisit1(queue) ==
    LET maxD == CHOOSE m \in {e.depth : e \in {queue[k] : k \in DOMAIN queue}} \cup {0} :
                    \A k \in DOMAIN queue : queue[k].depth <= m
    IN StableSort(queue, LAMBDA e :
            (IF isApiRelatedUrl(e.url) THEN 0 ELSE 1) * (maxD + 1) + e.depth)

\* One pass of the while loop up to the await of analyzePage.
scanWebsite_dequeue ==
    /\ engine = "client1" /\ pc = "loop" /\ loopCondition
    /\ LET e == Head(toVisit)
       IN /\ toVisit' = Tail(toVisit)
          /\ IF skipEntry(e)
             THEN UNCHANGED <<visited, cur, fetchCount, procLog, pagesScanned, pc, inFlight>>
             ELSE /\ MarkVisited(e)
                  /\ pagesScanned' = pagesScanned + 1
                  /\ inFlight' = inFlight \cup {e.url}
                  /\ pc' = afterFetchStart
    /\ UNCHANGED <<config, browserRes, driver, discoveredApis, apiRelatedPages, proxyIndex,
                   retryCount, pageFailures>>

\* fetchWithProxy of the first engine fails on the proxy in use: it moves to
\* the next proxy for good, or throws when it is at the last one.
fetchWithProxy1_fail ==
    /\ engine = "client1" /\ pc = "fetching"
    /\ IF proxyIndex < NumProxies1 - 1
       THEN /\ proxyIndex' = proxyIndex + 1
            /\ UNCHANGED <<pc, inFlight, pageFailures>>
       ELSE /\ pc' = onPageError
            /\ inFlight' = inFlight \ {cur.url}
            /\ pageFailures' = pageFailures + 1
            /\ UNCHANGED proxyIndex
    /\ UNCHANGED <<config, browserRes, driver, visited, toVisit, pagesScanned, discoveredApis,
                   apiRelatedPages, cur, retryCount, fetchCount, procLog>>

\* analyzePage returns: the rest of the loop body.
scanWebsite_analyzed(p, links) ==
    /\ engine = "client1" /\ pc = "fetching"
    /\ LET baseDomain == Origin(urls[i])
           fresh == SelectSeq(links, LAMBDA l : l \notin visited)
           pushed == [k \in DOMAIN fresh |-> [url |-> fresh[k], depth |-> cur.depth + 1]]
       IN /\ IF isApiRelated(p, cur.url)
             THEN /\ apiRelatedPages' = Append(apiRelatedPages, cur.url)
                  /\ discoveredApis' = discoveredApis \o extractApis(p, cur.url, baseDomain)
             ELSE UNCHANGED <<apiRelatedPages, discoveredApis>>
          /\ toVisit' = IF mayFollow(cur.depth)
                        THEN sortToVisit1(toVisit \o pushed)
                        ELSE toVisit
    /\ pc' = "loop"
    /\ inFlight' = inFlight \ {cur.url}
    /\ UNCHANGED <<config, browserRes, driver, visited, pagesScanned, cur, proxyIndex, retryCount,
                   fetchCount, procLog, pageFailures>>

\* The loop has ended: scanWebsite returns and discoverApis pushes the result.
scanWebsite_return ==
    /\ engine = "client1" /\ pc = "loop" /\ ~loopCondition
    /\ PushResult([url |-> urls[i], status |-> "success",
                   pagesScanned |-> pagesScanned,
                   apis |-> deduplicateApis1(discoveredApis)], FALSE)
    /\ UNCHANGED <<config, browserRes, proxyIndex, report>>

\* discoverApis of the first engine returns its report.
discoverApis1_return ==
    /\ engine = "client1" /\ pc = "idle" /\ i > Len(urls)
    /\ report' = [status |-> "returned", totalApisFound |-> Len(allApis),
                  apis |-> allApis, scanResults |-> scanResults]
    /\ pc' = "done"
    /\ UNCHANGED <<config, browserRes, visited, toVisit, pagesScanned, discoveredApis,
                   apiRelatedPages, cur, proxyIndex, retryCount, inFlight, active,
                   scanResults, allApis, fetchCount, procLog, pageFailures, siteLog, i>>

\* ------------------------------------------ second client engine: crawl
afterFetchStart2 == "fetching"

\* discoverApis calls scanPortal(url); new URL(startUrl) succeeds.
scanPortal_begin ==
    /\ engine = "client2" /\ pc = "idle" /\ i <= Len(urls)
    /\ Parses(urls[i])
    /\ FreshLocals(<< [url |-> urls[i], depth |-> 0, type |-> "listing"] >>)
    /\ active' = active \cup {i}
    /\ pc' = "loop"
    /\ UNCHANGED <<config, browserRes, proxyIndex, scanResults, allApis, report, siteLog, i>>

\* toVisit.sort(...) at the top of the loop.
sortToVisit2(queue) == StableSort(queue, LAMBDA e : priority(e.type))

\* One pass of the while loop up to the await of fetchAndParse.
scanPortal_dequeue ==
    /\ engine = "client2" /\ pc = "loop" /\ loopCondition
    /\ LET sorted == sortToVisit2(toVisit)
           e == Head(sorted)
       IN /\ toVisit' = Tail(sorted)
          /\ IF skipEntry(e)
             THEN UNCHANGED <<visited, cur, fetchCount, procLog, pagesScanned, pc, inFlight>>
             ELSE /\ MarkVisited(e)
                  /\ pagesScanned' = pagesScanned + 1
                  /\ inFlight' = inFlight \cup {e.url}
                  /\ pc' = afterFetchStart2
    /\ retryCount' = 0
    /\ UNCHANGED <<config, browserRes, driver, discoveredApis, apiRelatedPages, proxyIndex, pageFailures>>

\* fetchWithProxy of the second engine fails on one proxy: it retries on the
\* next one, or throws after the last.
fetchWithProxy2_fail ==
    /\ engine = "client2" /\ pc = "fetching"
    /\ IF retryCount < NumProxies2 - 1
       THEN /\ retryCount' = retryCount + 1
            /\ UNCHANGED <<pc, inFlight, pageFailures>>
       ELSE /\ pc' = onPageError
            /\ inFlight' = inFlight \ {cur.url}
            /\ pageFailures' = pageFailures + 1
            /\ UNCHANGED retryCount
    /\ UNCHANGED <<config, browserRes, driver, visited, toVisit, pagesScanned, discoveredApis,
                   apiRelatedPages, cur, proxyIndex, fetchCount, procLog>>

\* The proxy answers with an empty body: fetchAndParse returns null, `continue`.
scanPortal_empty ==
    /\ engine = "client2" /\ pc = "fetching"
    /\ pc' = "loop"
    /\ inFlight' = inFlight \ {cur.url}
    /\ UNCHANGED <<config, browserRes, driver, visited, toVisit, pagesScanned, discoveredApis,
                   apiRelatedPages, cur, proxyIndex, retryCount, fetchCount, procLog,
                   pageFailures>>

\* fetchAndParse returns a page: the rest of the loop body. No proxy returns
\* a page for a URL that does not parse.
scanPortal_analyzed(p, cards, anchors) ==
    /\ engine = "client2" /\ pc = "fetching"
    /\ Parses(cur.url)
    /\ LET baseDomain == Origin(urls[i])
           products == SelectSeq(extractProductListings(cards, anchors, cur.url),
                                 LAMBDA u : u \notin visited)
           details == IF cur.type = "listing" \/ cur.depth = 0
                      THEN [k \in DOMAIN products |->
                              [url |-> products[k], depth |-> cur.depth + 1,
                               type |-> "detail"]]
                      ELSE <<>>
           newLinks == findRelevantLinks(anchors, visited)
           more == IF mayFollow(cur.depth)
                   THEN [k \in DOMAIN newLinks |->
                           [url |-> newLinks[k].url, depth |-> cur.depth + 1,
                            type |-> newLinks[k].type]]
                   ELSE <<>>
       IN /\ discoveredApis' =
                discoveredApis \o extractApiInfo(p, cur.url, baseDomain, cur.type)
          /\ toVisit' = toVisit \o details \o more
    /\ pc' = "loop"
    /\ inFlight' = inFlight \ {cur.url}
    /\ UNCHANGED <<config, browserRes, driver, visited, pagesScanned, apiRelatedPages, cur,
                   proxyIndex, retryCount, fetchCount, procLog, pageFailures>>

\* The loop has ended: scanPortal returns and discoverApis pushes the result.
scanPortal_return ==
    /\ engine = "client2" /\ pc = "loop" /\ ~loopCondition
    /\ PushResult([url |-> urls[i], status |-> "success",
                   pagesScanned |-> pagesScanned,
                   apis |-> deduplicateApis2(discoveredApis)], FALSE)
    /\ UNCHANGED <<config, browserRes, proxyIndex, report>>

\* discoverApis of the second engine returns its report.
discoverApis2_return ==
    /\ engine = "client2" /\ pc = "idle" /\ i > Len(urls)
    /\ report' = [status |-> "returned", totalApisFound |-> Len(allApis),
                  apis |-> deduplicateApis2(allApis), scanResults |-> scanResults]
    /\ pc' = "done"
    /\ UNCHANGED <<config, browserRes, visited, toVisit, pagesScanned, discoveredApis,
                   apiRelatedPages, cur, proxyIndex, retryCount, inFlight, active,
                   scanResults, allApis, fetchCount, procLog, pageFailures, siteLog, i>>

\* ------------------------------------------- Playwright scrapers: crawl
afterGoto == "fetching"

\* Variant: new entries go to the front of the work list.
enqueue_front(queue, entries) == entries \o queue

\* toVisit.push(...) for every entry, in order.
enqueue(queue, entries) == queue \o entries

\* scrape calls crawlSite(browser, url, options): browser.newContext is awaited.
crawlSite_begin ==
    /\ engine \in PwEngines /\ pc = "idle" /\ i <= Len(urls)
    /\ FreshLocals(<< [url |-> urls[i], depth |-> 0] >>)
    /\ active' = active \cup {i}
    /\ pc' = "context"
    /\ UNCHANGED <<config, browserRes, proxyIndex, scanResults, allApis, report, siteLog, i>>

\* browser.newContext resolves. The newer scraper then awaits
\* context.addInitScript, before its try block.
crawlSite_context ==
    /\ engine \in PwEngines /\ pc = "context"
    /\ pc' = IF engine = "pw1" THEN "initscript" ELSE "loop"
    /\ openContexts' = openContexts + 1
    /\ UNCHANGED <<openPages, browserOpen>>
    /\ UNCHANGED <<config, driver, visited, toVisit, pagesScanned, discoveredApis,
                   apiRelatedPages, cur, proxyIndex, retryCount, inFlight,
                   fetchCount, procLog, pageFailures>>

\* context.addInitScript resolves: the try block is entered.
crawlSite_initScript ==
    /\ engine = "pw1" /\ pc = "initscript"
    /\ pc' = "loop"
    /\ UNCHANGED browserRes
    /\ UNCHANGED <<config, driver, visited, toVisit, pagesScanned, discoveredApis,
                   apiRelatedPages, cur, proxyIndex, retryCount, inFlight,
                   fetchCount, procLog, pageFailures>>

\* browser.newContext, context.addInitScript or context.newPage rejects:
\* crawlSite throws, and the catch block of scrape pushes an error result.
\* Only a rejection of newPage is inside the try block whose finally runs
\* context.close.
scrape_catch ==
    /\ engine \in PwEngines /\ pc \in {"context", "initscript", "newpage"}
    /\ PushResult(ErrorResult(urls[i]), TRUE)
    /\ openContexts' = IF pc = "newpage" THEN openContexts - 1 ELSE openContexts
    /\ UNCHANGED <<openPages, browserOpen>>
    /\ UNCHANGED <<config, proxyIndex, report>>

\* One pass of the while loop up to the await of context.newPage.
crawlSite_dequeue ==
    /\ engine \in PwEngines /\ pc = "loop" /\ loopCondition
    /\ LET e == Head(toVisit)
       IN /\ toVisit' = Tail(toVisit)
          /\ IF skipEntryPw(e)
             THEN UNCHANGED <<visited, cur, fetchCount, procLog, pc>>
             ELSE /\ MarkVisited(e)
                  /\ pc' = "newpage"
    /\ UNCHANGED <<config, browserRes, driver, pagesScanned, discoveredApis, apiRelatedPages,
                   proxyIndex, retryCount, inFlight, pageFailures>>

\* context.newPage resolves and page.goto is issued.
crawlSite_goto ==
    /\ engine \in PwEngines /\ pc = "newpage"
    /\ inFlight' = inFlight \cup {cur.url}
    /\ pc' = afterGoto
    /\ openPages' = openPages + 1
    /\ UNCHANGED <<openContexts, browserOpen>>
    /\ UNCHANGED <<config, driver, visited, toVisit, pagesScanned, discoveredApis,
                   apiRelatedPages, cur, proxyIndex, retryCount, fetchCount, procLog,
                   pageFailures>>

\* page.goto (or reading the page) rejects: the inner catch logs, the page
\* is closed and the loop goes on.
crawlSite_loadError ==
    /\ engine \in PwEngines /\ pc = "fetching"
    /\ pc' = onPageError
    /\ inFlight' = inFlight \ {cur.url}
    /\ pageFailures' = pageFailures + 1
    /\ openPages' = openPages - 1
    /\ UNCHANGED <<openContexts, browserOpen>>
    /\ UNCHANGED <<config, driver, visited, toVisit, pagesScanned, discoveredApis,
                   apiRelatedPages, cur, proxyIndex, retryCount, fetchCount, procLog>>

\* The page loaded: the rest of the inner try block. A URL new URL rejects
\* never loads.
crawlSite_loaded(p, links) ==
    /\ engine \in PwEngines /\ pc = "fetching"
    /\ Parses(cur.url)
    /\ LET foundApis == IF engine = "pw1" THEN analyzePageContent1(cur.url, p)
                        ELSE analyzePageContent2(cur.url, p)
           sorted == SelectSeq(sortedLinks(links), LAMBDA l : l \notin visited)
           pushed == [k \in DOMAIN sorted |-> [url |-> sorted[k], depth |-> cur.depth + 1]]
       IN /\ pagesScanned' = pagesScanned + 1
          /\ IF foundApis # <<>>
             THEN /\ discoveredApis' = discoveredApis \o foundApis
                  /\ apiRelatedPages' = Append(apiRelatedPages, cur.url)
             ELSE UNCHANGED <<discoveredApis, apiRelatedPages>>
          /\ toVisit' = IF mayFollow(cur.depth) THEN enqueue(toVisit, pushed) ELSE toVisit
    /\ pc' = "loop"
    /\ inFlight' = inFlight \ {cur.url}
    /\ openPages' = openPages - 1
    /\ UNCHANGED <<openContexts, browserOpen>>
    /\ UNCHANGED <<config, driver, visited, cur, proxyIndex, retryCount, fetchCount,
                   procLog, pageFailures>>

\* The loop has ended: crawlSite returns and scrape pushes the result.
crawlSite_return ==
    /\ engine \in PwEngines /\ pc = "loop" /\ ~loopCondition
    /\ PushResult([url |-> urls[i], status |-> "success",
                   pagesScanned |-> pagesScanned,
                   apis |-> discoveredApis], FALSE)
    /\ openContexts' = openContexts - 1
    /\ UNCHANGED <<openPages, browserOpen>>
    /\ UNCHANGED <<config, proxyIndex, report>>

\* scrape merges with the stored inventory and writes apis.json.
scrape_write ==
    /\ engine \in PwEngines /\ pc = "idle" /\ i > Len(urls)
    /\ report' = [status |-> "written",
                  totalApis |-> Len(mergedApis(existingApis, allApis)),
                  apis |-> mergedApis(existingApis, allApis),
                  scanResults |-> scanResults]
    /\ pc' = "done"
    /\ browserOpen' = FALSE
    /\ openContexts' = 0
    /\ UNCHANGED openPages
    /\ UNCHANGED <<config, visited, toVisit, pagesScanned, discoveredApis,
                   apiRelatedPages, cur, proxyIndex, retryCount, inFlight, active,
                   scanResults, allApis, fetchCount, procLog, pageFailures, siteLog, i>>

\* ------------------------------------------------------- specification
\* The links of the page in hand are read only under `depth < maxDepth`:
\* otherwise the loop body does not look at them.
LinksRead(engines, lists) ==
    IF engine \in engines /\ pc = "fetching" /\ mayFollow(cur.depth)
    THEN lists ELSE {<<>>}

\* scanPortal reads the product cards of a listing page or of the start
\* page, and the anchors for these or under `depth < maxDepth`.
CardsRead2 ==
    IF engine = "client2" /\ pc = "fetching" /\ (cur.type = "listing" \/ cur.depth = 0)
    THEN CardLists2 ELSE {<<>>}
AnchorsRead2 ==
    IF /\ engine = "client2" /\ pc = "fetching"
       /\ (mayFollow(cur.depth) \/ cur.type = "listing" \/ cur.depth = 0)
    THEN AnchorLists2 ELSE {<<>>}

Next ==
    \/ scanWebsite_begin
    \/ discoverApis_catch
    \/ scanWebsite_dequeue
    \/ fetchWithProxy1_fail
    \/ \E p \in Pages, links \in LinksRead({"client1"}, LinkLists) : scanWebsite_analyzed(p, links)
    \/ scanWebsite_return
    \/ discoverApis1_return
    \/ scanPortal_begin
    \/ scanPortal_dequeue
    \/ fetchWithProxy2_fail
    \/ scanPortal_empty
    \/ \E p \in Pages, cards \in CardsRead2, anchors \in AnchorsRead2 :
          scanPortal_analyzed(p, cards, anchors)
    \/ scanPortal_return
    \/ discoverApis2_return
    \/ crawlSite_begin
    \/ crawlSite_context
    \/ crawlSite_initScript
    \/ scrape_catch
    \/ crawlSite_dequeue
    \/ crawlSite_goto
    \/ crawlSite_loadError
    \/ \E p \in Pages, links \in LinksRead(PwEngines, PwLinkLists) : crawlSite_loaded(p, links)
    \/ crawlSite_return
    \/ scrape_write

Spec == Init /\ [][Next]_vars

\* Runs over one seed: the crawl loops of two sites share no local.
InitLive == Init /\ Len(urls) = 1

\* Every await of the crawl settles: fetch is aborted after this.timeout,
\* page.goto rejects after `timeout`, and the event loop runs each
\* continuation, so a step that can be taken is taken.
SpecLive == InitLive /\ [][Next]_vars /\ WF_vars(Next)

\* ------------------------------------------- the operations on their own
\* The dedup, merge, scoring and classification operations are pure: each is
\* called once on arguments drawn from the sets below.
crawlVars == <<engine, optMaxDepth, optMaxPages, maxDepth, maxPages, urls, i, pc,
               visited, toVisit, pagesScanned, discoveredApis, apiRelatedPages, cur,
               proxyIndex, retryCount, inFlight, active, scanResults, allApis,
               existingApis, report, fetchCount, procLog, pageFailures, siteLog,
               openPages, openContexts, browserOpen>>

\* ApiRecords: two api types, two source pages, two scores; name and url are
\* those of one provider.
Recs == [name : {<<"Accounts">>}, url : {Origin(RootUrl)},
         source_page : {RootUrl, ApiUrl}, api_type : {"AIS", "PIS"},
         confidence_score : {40, 80}]

\* A stored inventory and the records of a scan, MaxRecs records in all.
ListArgs ==
    {[NoArgs EXCEPT !.kind = "lists", !.stored = a, !.scanned = b] :
        <<a, b>> \in {q \in SeqUpTo(Recs, MaxRecs) \X SeqUpTo(Recs, MaxRecs) :
                        Len(q[1]) + Len(q[2]) <= MaxRecs}}

\* Pages by match counts around the thresholds of the scoring code. Each
\* engine reads the counts of its own taxonomy: general is the general / psd2
\* category, tech the technical / api_patterns category. The indicators of
\* calculateConfidence (cind) are among those of isApiDetailPage (ind), and
\* 'authentication', one of them, is an OAUTH keyword.
ScorePages ==
    {p \in [general : {0, 1, FullScoreMatches}, ais : {0, 1, 2}, pis : {0, 1, 2},
            caf : {0, 1}, tech : {0, PatternThreshold - 1, PatternThreshold},
            oauth : {0, 1}, ind : {0, 1, DetailThreshold, NumConfIndicators},
            cind : {0, 1, NumConfIndicators}, title : {"Home", "Open Banking"}] :
        /\ <<p.ind, p.cind>> \in {<<0, 0>>, <<1, 1>>, <<DetailThreshold, 1>>,
                                   <<NumConfIndicators, NumConfIndicators>>}
        /\ (p.cind = NumConfIndicators => p.oauth > 0)}

PageArgs ==
    {[NoArgs EXCEPT !.kind = "page", !.page = p, !.url = u, !.pageType = t] :
        p \in ScorePages, u \in SiteUrls, t \in PageTypes}

\* A page and its href attributes, for extractLinks.
HrefArgs ==
    {[NoArgs EXCEPT !.kind = "hrefs", !.url = RootUrl, !.hrefs = h] : h \in HrefLists}

\* A work list of scanPortal by the types of its entries.
QueueArgs ==
    {[NoArgs EXCEPT !.kind = "queue", !.queue = q] :
        q \in SeqUpTo([url : {ApiUrl}, depth : {1}, type : PageTypes], MaxRecs)}

\* A site of one page without links, the proxies that answer for it, and
\* this.proxyIndex as an earlier scan on the instance left it.
ScanArgs ==
    {[NoArgs EXCEPT !.kind = "scan", !.page = p, !.url = u, !.proxyIndex = x,
                    !.works = w] :
        p \in Pages, u \in SiteUrls, x \in 0..(NumProxies1 - 1),
        w \in SUBSET (0..(NumProxies1 - 1))}

\* The proxies that answer for one URL, for the second engine, whose
\* this.proxyIndex stays 0.
Fetch2Args ==
    {[NoArgs EXCEPT !.kind = "fetch2", !.proxyIndex = 0, !.works = w] :
        w \in SUBSET (0..(NumProxies2 - 1))}

InitCalls ==
    /\ fnName = "none" /\ fnRet = <<>>
    /\ fnArgs \in ListArgs \cup PageArgs \cup HrefArgs \cup QueueArgs \cup ScanArgs
                  \cup Fetch2Args
    /\ engine = "client1"
    /\ urls = <<>>
    /\ optMaxDepth = 0 /\ optMaxPages = 0
    /\ maxDepth = constructorMaxDepth(engine, optMaxDepth)
    /\ maxPages = constructorMaxPages(engine, optMaxPages)
    /\ i = 1
    /\ pc = "idle"
    /\ visited = {}
    /\ toVisit = <<>>
    /\ pagesScanned = 0
    /\ discoveredApis = <<>>
    /\ apiRelatedPages = <<>>
    /\ existingApis = <<>>
    /\ cur = NoEntry
    /\ proxyIndex = 0
    /\ retryCount = 0
    /\ inFlight = {}
    /\ active = {}
    /\ scanResults = <<>>
    /\ allApis = <<>>
    /\ report = [status |-> "none"]
    /\ fetchCount = [u \in AllUrls |-> 0]
    /\ procLog = {}
    /\ pageFailures = 0
    /\ siteLog = <<>>
    /\ openPages = 0 /\ openContexts = 0 /\ browserOpen = FALSE

\* The operation `name` is called on the arguments and returns `result`.
Returns(kind, name, result) ==
    /\ fnName = "none" /\ fnArgs.kind = kind
    /\ fnName' = name
    /\ fnRet' = result
    /\ UNCHANGED <<fnArgs, crawlVars>>

\* First engine: deduplicateApis over the collected records.
call_deduplicateApis1 ==
    Returns("lists", "deduplicateApis1",
            deduplicateApis1(fnArgs.stored \o fnArgs.scanned))

\* Second engine: deduplicateApis over the collected records.
call_deduplicateApis2 ==
    Returns("lists", "deduplicateApis2",
            deduplicateApis2(fnArgs.stored \o fnArgs.scanned))

\* scrape: the merge with the stored inventory, the sort, and the output.
call_scrapeMerge ==
    Returns("lists", "scrapeMerge",
            [totalApis |-> Len(mergedApis(fnArgs.stored, fnArgs.scanned)),
             apis |-> mergedApis(fnArgs.stored, fnArgs.scanned)])

\* First engine: analyzePage scores the page, and scanWebsite extracts
\* records when the page is API-related.
call_analyzePage ==
    Returns("page", "analyzePage",
            [relevanceScore |-> calculateRelevance(fnArgs.page, fnArgs.url),
             isApiRelated |-> isApiRelated(fnArgs.page, fnArgs.url),
             apis |-> IF isApiRelated(fnArgs.page, fnArgs.url)
                      THEN extractApis(fnArgs.page, fnArgs.url, Origin(fnArgs.url))
                      ELSE <<>>])

\* Second engine: calculateConfidence with the type detectApiType gives.
call_calculateConfidence ==
    Returns("page", "calculateConfidence",
            calculateConfidence(fnArgs.pageType, fnArgs.page,
                                detectApiType(fnArgs.page)))

\* Second engine: extractApiInfo for a fetched page of a frontier type.
call_extractApiInfo ==
    Returns("page", "extractApiInfo",
            extractApiInfo(fnArgs.page, fnArgs.url, Origin(fnArgs.url),
                           fnArgs.pageType))

\* Playwright analyzePageContent, newer and older version.
call_analyzePageContent1 ==
    Returns("page", "analyzePageContent1",
            analyzePageContent1(fnArgs.url, fnArgs.page))
call_analyzePageContent2 ==
    Returns("page", "analyzePageContent2",
            analyzePageContent2(fnArgs.url, fnArgs.page))

\* Second engine: detectApiType on the text of a page.
call_detectApiType ==
    Returns("page", "detectApiType", detectApiType(fnArgs.page))

\* Playwright extractLinks on the hrefs of a page.
call_extractLinks ==
    Returns("hrefs", "extractLinks", extractLinksPw(fnArgs.url, fnArgs.hrefs))

\* Second engine: the sort at the top of the scanPortal loop.
call_sortToVisit2 ==
    Returns("queue", "sortToVisit2", sortToVisit2(fnArgs.queue))

\* First engine: scanWebsite on a site of one page without links, on an
\* instance whose proxyIndex is idx. The seed is dequeued, counted and
\* fetched; the loop ends with the work list empty.
scanWebsiteOnePage(p, url, idx, works) ==
    LET fetched == fetchWithProxy1(idx, works)
        apis == IF fetched.ok /\ isApiRelated(p, url)
                THEN extractApis(p, url, Origin(url))
                ELSE <<>>
    IN [result |-> [url |-> url, status |-> "success", pagesScanned |-> 1,
                    apis |-> deduplicateApis1(apis)],
        proxyIndex |-> fetched.proxyIndex]

call_scanWebsite ==
    Returns("scan", "scanWebsite",
            scanWebsiteOnePage(fnArgs.page, fnArgs.url, fnArgs.proxyIndex,
                               fnArgs.works))

\* First engine: one call of fetchWithProxy at this.proxyIndex.
call_fetchWithProxy1 ==
    Returns("scan", "fetchWithProxy1", fetchWithProxy1(fnArgs.proxyIndex, fnArgs.works))

\* Second engine: one call of fetchWithProxy(url).
call_fetchWithProxy2 ==
    Returns("fetch2", "fetchWithProxy2", fetchWithProxy2(fnArgs.proxyIndex, fnArgs.works))

NextCalls ==
    \/ call_fetchWithProxy1
    \/ call_fetchWithProxy2
    \/ call_detectApiType
    \/ call_extractLinks
    \/ call_sortToVisit2
    \/ call_scanWebsite
    \/ call_deduplicateApis1
    \/ call_deduplicateApis2
    \/ call_scrapeMerge
    \/ call_analyzePage
    \/ call_calculateConfidence
    \/ call_extractApiInfo
    \/ call_analyzePageContent1
    \/ call_analyzePageContent2

SpecCalls == InitCalls /\ [][NextCalls]_vars

\* ------------------------------------------------------------- claims
Last(s) == s[Len(s)]
IsPrefix(s, t) == Len(s) <= Len(t) /\ \A k \in DOMAIN s : s[k] = t[k]
\* What each crawl returns as `apis` for the records it has collected.
ResultApis(apis) ==
    CASE engine = "client1" -> deduplicateApis1(apis)
      [] engine = "client2" -> deduplicateApis2(apis)
      [] OTHER -> apis

\* C1: in every crawl loop, in every reachable state, pagesScanned is at most
\* the page budget the loop runs with, and so is the pagesScanned of every
\* site result.
C1_PagesWithinBudget ==
    /\ pagesScanned <= maxPages
    /\ \A k \in DOMAIN scanResults : scanResults[k].pagesScanned <= maxPages

\* C1 witness: the budget stops a crawl that still has pending entries.
C1_Witness ==
    pc = "loop" /\ pagesScanned = maxPages /\ maxPages > 0 /\ toVisit # <<>>

\* C2: the start URL is processed at depth 0, and every other processed
\* entry has a depth between 1 and maxDepth.
C2_DepthWithinLimit ==
    /\ \A e \in procLog :
          IF e.url = urls[i] THEN e.depth = 0 ELSE e.depth \in 1..maxDepth
    /\ procLog # {} => [url |-> urls[i], depth |-> 0] \in procLog

\* C2 witness: a page at the deepest allowed level has been processed and
\* the crawl went on.
C2_Witness ==
    /\ pc = "loop" /\ maxDepth >= 1
    /\ \E e \in procLog : e.depth = maxDepth /\ e.url = cur.url

\* C3 (as claimed): with the options the caller passed to the constructor of
\* a client engine, pagesScanned <= options.maxPages and no page deeper than
\* options.maxDepth is processed.
C3_CallerOptionsRespected ==
    engine \in ClientEngines =>
        /\ pagesScanned <= optMaxPages
        /\ \A e \in procLog : e.depth <= optMaxDepth

\* C4: within one site crawl the visited set only grows, and no URL is
\* loaded a second time.
C4_VisitedOnce ==
    [][ /\ (pc' # "idle" => visited \subseteq visited')
        /\ \A u \in AllUrls : fetchCount'[u] <= 1 ]_vars

\* C4 witness: a URL that was loaded (and failed) is pending again in the
\* work list.
C4_Witness ==
    /\ pageFailures > 0
    /\ \E k \in DOMAIN toVisit : toVisit[k].url \in visited /\ fetchCount[toVisit[k].url] = 1

\* C5: a page whose load fails leaves the work list, the collected records
\* and the results as they are and the loop goes on; no load drops a record
\* collected before; and a crawl that had a failed page and comes to the end
\* of its loop returns status "success" with the records it collected, and
\* only when the work list is empty or the budget is used up.
C5_PageFailureNotFatal ==
    [][ /\ (pageFailures' = pageFailures + 1 =>
                /\ pc' = "loop"
                /\ toVisit' = toVisit
                /\ discoveredApis' = discoveredApis
                /\ scanResults' = scanResults)
        /\ (pc = "fetching" /\ pc' = "loop" => IsPrefix(discoveredApis, discoveredApis'))
        /\ (pc = "loop" /\ pc' = "idle" /\ pageFailures > 0 =>
                /\ ~loopCondition
                /\ Last(scanResults').status = "success"
                /\ Last(scanResults').apis = ResultApis(discoveredApis)) ]_vars

\* C5 witness: a site result of a crawl that had a failed page and still
\* delivers records.
C5_Witness ==
    \E k \in DOMAIN scanResults :
        /\ siteLog[k].failed /\ ~siteLog[k].threw
        /\ scanResults[k].status = "success"
        /\ scanResults[k].apis # <<>>

\* C6: in discoverApis of both client engines an unparsable seed gives a
\* site result with status "error", an error message, no apis and
\* pagesScanned 0, and every parsable seed of the list is still scanned.
C6_BadSeedIsSiteError ==
    engine \in ClientEngines =>
        /\ \A k \in DOMAIN scanResults :
              ~Parses(urls[k]) =>
                  /\ scanResults[k].status = "error"
                  /\ "error" \in DOMAIN scanResults[k]
                  /\ scanResults[k].apis = <<>>
                  /\ scanResults[k].pagesScanned = 0
        /\ pc = "done" =>
              \A k \in DOMAIN urls :
                  Parses(urls[k]) =>
                      /\ k \in DOMAIN scanResults
                      /\ scanResults[k].status = "success"
                      /\ scanResults[k].pagesScanned >= 1

\* C6 witness: a run whose first seed is unparsable has finished.
C6_Witness ==
    /\ engine \in ClientEngines /\ pc = "done"
    /\ Len(urls) = 2 /\ ~Parses(urls[1]) /\ Parses(urls[2])

\* C7 (as claimed): in the Playwright scraper a start URL that cannot be
\* parsed or loaded gives a site result with status "error", an error
\* message and no apis.
C7_PwBadSeedIsSiteError ==
    engine \in PwEngines =>
        \A k \in DOMAIN scanResults :
            ~Parses(urls[k]) =>
                /\ scanResults[k].status = "error"
                /\ "error" \in DOMAIN scanResults[k]
                /\ scanResults[k].apis = <<>>

\* C8: the driver has one site result per seed it is done with, in input
\* order, and the report holds exactly one site result per input URL, the
\* k-th for the k-th input URL.
C8_OneResultPerInput ==
    /\ Len(scanResults) = i - 1
    /\ \A k \in DOMAIN scanResults : scanResults[k].url = urls[k]
    /\ pc = "done" =>
          /\ Len(report.scanResults) = Len(urls)
          /\ \A k \in DOMAIN urls : report.scanResults[k].url = urls[k]

\* C8 witness: a report over a failed and a successful site.
C8_Witness ==
    /\ pc = "done" /\ Len(urls) = 2
    /\ report.scanResults[1].status # report.scanResults[2].status

\* C9: at most one request is outstanding and at most one site crawl is
\* running; the loop is at its top, and the driver between two seeds, only
\* when nothing is outstanding.
C9_Sequential ==
    /\ Cardinality(inFlight) <= 1
    /\ Cardinality(active) <= 1
    /\ pc = "loop" => inFlight = {}
    /\ pc \in {"idle", "done"} => inFlight = {} /\ active = {}

\* C9 witness: a request is outstanding while entries are pending and the
\* budget is not used up.
C9_Witness ==
    inFlight # {} /\ loopCondition /\ Len(scanResults) = 1

\* C10 (as claimed): the report of the first client engine holds no two
\* records with the same key (url, api_type).
C10_ReportNoDuplicateKeys ==
    engine = "client1" /\ pc = "done" =>
        \A a, b \in DOMAIN report.apis :
            Key1(report.apis[a]) = Key1(report.apis[b]) => a = b

\* ------------------------------------------- claims on single operations
\* The list a dedup is called on, and the source pages of a list.
CallList == fnArgs.stored \o fnArgs.scanned
PagesOf(L) == {L[j].source_page : j \in DOMAIN L}
PwCalls == {"analyzePageContent1", "analyzePageContent2"}

\* C11: the second engine's deduplicateApis returns one record per key
\* (name, api_type) of its input, no other key and no record from outside
\* the input, and the record of a key is the earliest input record with the
\* key's maximum confidence_score.
C11_Dedup2BestPerKey ==
    fnName = "deduplicateApis2" =>
        LET X == CallList
            Best(j) ==
                /\ \A m \in DOMAIN X : Key2(X[m]) = Key2(X[j]) =>
                       X[m].confidence_score <= X[j].confidence_score
                /\ \A m \in 1..(j - 1) : Key2(X[m]) = Key2(X[j]) =>
                       X[m].confidence_score < X[j].confidence_score
        IN /\ \A a, b \in DOMAIN fnRet : Key2(fnRet[a]) = Key2(fnRet[b]) => a = b
           /\ {Key2(fnRet[k]) : k \in DOMAIN fnRet} = {Key2(X[j]) : j \in DOMAIN X}
           /\ \A k \in DOMAIN fnRet : \E j \in DOMAIN X : Best(j) /\ fnRet[k] = X[j]

\* C11 witness: three records of one key, the maximum tied between the
\* second and the third; the second is returned.
C11_Witness ==
    /\ fnName = "deduplicateApis2" /\ Len(CallList) = 3
    /\ Key2(CallList[1]) = Key2(CallList[2]) /\ Key2(CallList[2]) = Key2(CallList[3])
    /\ CallList[1].confidence_score < CallList[2].confidence_score
    /\ CallList[2].confidence_score = CallList[3].confidence_score
    /\ CallList[2] # CallList[3]
    /\ fnRet = <<CallList[2]>>

\* C12 (as claimed): the first engine's deduplicateApis, given two records
\* of one key (url, api_type) with different scores, in either order,
\* returns the record with the higher score.
C12_Dedup1KeepsHigherScore ==
    (/\ fnName = "deduplicateApis1" /\ Len(CallList) = 2
     /\ Key1(CallList[1]) = Key1(CallList[2])
     /\ CallList[1].confidence_score # CallList[2].confidence_score)
    => fnRet = << IF CallList[1].confidence_score > CallList[2].confidence_score
                  THEN CallList[1] ELSE CallList[2] >>

\* C13: the merge of scrape holds one record per source_page of the stored
\* inventory and the new scan; for a source_page the scan produced it is the
\* last record the scan produced for it, whatever the scores, and otherwise
\* the stored record.
C13_MergeNewerWins ==
    fnName = "scrapeMerge" =>
        LET S == fnArgs.stored
            N == fnArgs.scanned
            M == fnRet.apis
            LastOf(L, sp) ==
                L[CHOOSE j \in DOMAIN L :
                      /\ L[j].source_page = sp
                      /\ \A m \in DOMAIN L : m > j => L[m].source_page # sp]
        IN /\ \A a, b \in DOMAIN M : M[a].source_page = M[b].source_page => a = b
           /\ PagesOf(M) = PagesOf(S) \cup PagesOf(N)
           /\ \A k \in DOMAIN M :
                 M[k] = IF M[k].source_page \in PagesOf(N)
                        THEN LastOf(N, M[k].source_page)
                        ELSE LastOf(S, M[k].source_page)

\* C13 witness: the scan found a stored page with a lower score than the
\* stored one, and did not find another stored page.
C13_Witness ==
    /\ fnName = "scrapeMerge"
    /\ \E a \in DOMAIN fnArgs.stored, b \in DOMAIN fnArgs.scanned :
          /\ fnArgs.stored[a].source_page = fnArgs.scanned[b].source_page
          /\ fnArgs.stored[a].confidence_score > fnArgs.scanned[b].confidence_score
    /\ \E c \in DOMAIN fnArgs.stored :
          fnArgs.stored[c].source_page \notin PagesOf(fnArgs.scanned)

\* C14: the apis list scrape writes is ordered by confidence_score,
\* non-increasing, and totalApis is its length.
C14_WrittenSortedByScore ==
    fnName = "scrapeMerge" =>
        /\ \A k \in 1..(Len(fnRet.apis) - 1) :
              fnRet.apis[k].confidence_score >= fnRet.apis[k + 1].confidence_score
        /\ fnRet.totalApis = Len(fnRet.apis)

\* C14 witness: two pages merged in ascending order of score are written in
\* descending order.
C14_Witness ==
    /\ fnName = "scrapeMerge" /\ Len(CallList) = 2
    /\ CallList[1].source_page # CallList[2].source_page
    /\ CallList[1].confidence_score < CallList[2].confidence_score
    /\ fnRet.apis = <<CallList[2], CallList[1]>>

\* C15: for each of the three dedup/merge operations, the list X it was
\* called on gives the same result when concatenated (merged) with itself,
\* and the result is returned unchanged when deduplicated again.
C15_DedupIdempotent ==
    /\ fnName = "deduplicateApis1" =>
          /\ deduplicateApis1(CallList \o CallList) = fnRet
          /\ deduplicateApis1(fnRet) = fnRet
    /\ fnName = "deduplicateApis2" =>
          /\ deduplicateApis2(CallList \o CallList) = fnRet
          /\ deduplicateApis2(fnRet) = fnRet
    /\ fnName = "scrapeMerge" =>
          /\ mergedApis(CallList, CallList) = fnRet.apis
          /\ mergedApis(<<>>, fnRet.apis) = fnRet.apis
          /\ mergedApis(fnRet.apis, fnRet.apis) = fnRet.apis

\* C15 witness: a dedup that removed a record from a full list.
C15_Witness ==
    /\ fnName \in {"deduplicateApis1", "deduplicateApis2"}
    /\ Len(CallList) = MaxRecs /\ Len(fnRet) = MaxRecs - 1

\* C16: every score lies in [0,1]: calculateRelevance and the records built
\* from it, calculateConfidence and the records built from it, and the
\* confidence_score of every record analyzePageContent emits.
C16_ScoresInUnitRange ==
    /\ fnName = "analyzePage" =>
          /\ fnRet.relevanceScore \in 0..100
          /\ \A k \in DOMAIN fnRet.apis : fnRet.apis[k].confidence_score \in 0..100
    /\ fnName = "calculateConfidence" => fnRet \in 0..100
    /\ fnName \in {"extractApiInfo"} \cup PwCalls =>
          \A k \in DOMAIN fnRet : fnRet[k].confidence_score \in 0..100

\* C16 witness: calculateConfidence for a documentation page of a specific
\* type with all five indicators, whose sum is 1.05.
C16_Witness ==
    /\ fnName = "calculateConfidence" /\ fnRet = 100
    /\ fnArgs.pageType = "documentation"
    /\ fnArgs.page.cind = NumConfIndicators
    /\ detectApiType(fnArgs.page) # "PSD2"

\* C17: the relevance score is min(1, sum of the weights of the categories
\* with a match (general 0.30, ais 0.25, pis 0.25, caf 0.20, technical 0.20)
\* plus 0.20 for an API URL), and the page is API-related, and yields
\* records, exactly when the score is above 0.2.
C17_RelevanceAndThreshold ==
    fnName = "analyzePage" =>
        LET p == fnArgs.page
            w(c, v) == IF c > 0 THEN v ELSE 0
            sum == w(p.general, 30) + w(p.ais, 25) + w(p.pis, 25) + w(p.caf, 20)
                 + w(p.tech, 20) + (IF isApiRelatedUrl(fnArgs.url) THEN 20 ELSE 0)
        IN /\ fnRet.relevanceScore = (IF sum > 100 THEN 100 ELSE sum)
           /\ fnRet.isApiRelated <=> fnRet.relevanceScore > 20
           /\ fnRet.apis # <<>> <=> fnRet.relevanceScore > 20

\* C17 witness: a page scoring exactly 0.2 is not API-related.
C17_Witness ==
    /\ fnName = "analyzePage" /\ fnRet.relevanceScore = 20
    /\ ~fnRet.isApiRelated /\ fnRet.apis = <<>>

\* The page has no match in any keyword category of the first engine and
\* of the Playwright scrapers.
NoKeywordMatch(p) ==
    p.general = 0 /\ p.ais = 0 /\ p.pis = 0 /\ p.caf = 0 /\ p.tech = 0

\* C18: a page with zero keyword matches is not API-related and yields no
\* record, in the first engine and in both analyzePageContent versions,
\* whatever its URL and title.
C18_NoKeywordsNoRecords ==
    /\ fnName = "analyzePage" /\ NoKeywordMatch(fnArgs.page) =>
          ~fnRet.isApiRelated /\ fnRet.apis = <<>>
    /\ fnName \in PwCalls /\ NoKeywordMatch(fnArgs.page) => fnRet = <<>>

\* C18 witness: a page without keywords whose URL and title both look like
\* an API page.
C18_Witness ==
    /\ fnName = "analyzePageContent2" /\ NoKeywordMatch(fnArgs.page)
    /\ isApiRelatedUrlPw(fnArgs.url) /\ TitleHasApi(fnArgs.page.title)
    /\ fnRet = <<>>

\* C19 (as claimed): in the second engine a fetched page without API
\* keyword and without API-detail indicator yields no record, whatever type
\* it was enqueued with.
C19_BlankPageNoRecord2 ==
    (/\ fnName = "extractApiInfo"
     /\ NoKeywordMatch(fnArgs.page)
     /\ fnArgs.page.oauth = 0 /\ fnArgs.page.ind = 0)
    => fnRet = <<>>

\* C20: the api_type of a record analyzePageContent emits names a category
\* whose match count is the largest of psd2, ais, pis and caf; with no match
\* in these four and at least 5 api_patterns matches it is PSD2.
C20_TypeIsMaxCategory ==
    fnName \in PwCalls =>
        LET p == fnArgs.page
            count(t) == CASE t = "PSD2" -> p.general
                          [] t = "AIS" -> p.ais
                          [] t = "PIS" -> p.pis
                          [] t = "CAF" -> p.caf
                          [] OTHER -> 0 - 1
        IN \A k \in DOMAIN fnRet :
              /\ \A c \in {p.general, p.ais, p.pis, p.caf} :
                    c <= count(fnRet[k].api_type)
              /\ (p.general + p.ais + p.pis + p.caf = 0 /\ p.tech >= PatternThreshold)
                    => fnRet[k].api_type = "PSD2"

\* C20 witness: a record of type AIS for a page with more ais than psd2
\* matches, and psd2 matches too.
C20_Witness ==
    /\ fnName = "analyzePageContent1" /\ fnRet # <<>>
    /\ fnArgs.page.general > 0 /\ fnArgs.page.ais > fnArgs.page.general
    /\ fnRet[1].api_type = "AIS"

\* C21 (as claimed): detectApiType returns the type whose keyword list has
\* the most matches in the text, and PSD2 only when no type keyword matches.
C21_DetectMostMatched ==
    fnName = "detectApiType" =>
        LET p == fnArgs.page
            count(t) == CASE t = "AIS" -> p.ais
                          [] t = "PIS" -> p.pis
                          [] t = "CAF" -> p.caf
                          [] t = "OAUTH" -> p.oauth
                          [] OTHER -> 0
            best == CHOOSE m \in {p.ais, p.pis, p.caf, p.oauth} :
                        \A c \in {p.ais, p.pis, p.caf, p.oauth} : c <= m
        IN /\ fnRet = "PSD2" <=> best = 0
           /\ best > 0 => count(fnRet) = best

\* The api_type values of the ApiRecord schema.
ApiTypeEnum == {"AIS", "PIS", "CAF", "PSD2", "Unknown"}

\* C22 (as claimed): every record any engine emits has an api_type in
\* {AIS, PIS, CAF, PSD2, Unknown}.
C22_ApiTypeInEnum ==
    /\ fnName = "analyzePage" =>
          \A k \in DOMAIN fnRet.apis : fnRet.apis[k].api_type \in ApiTypeEnum
    /\ fnName \in {"extractApiInfo"} \cup PwCalls =>
          \A k \in DOMAIN fnRet : fnRet[k].api_type \in ApiTypeEnum

\* C23 (as claimed): Playwright extractLinks returns, for a same-domain href
\* with a fragment, the URL without the fragment.
C23_FragmentStripped ==
    fnName = "extractLinks" =>
        \A k \in DOMAIN fnArgs.hrefs :
            LET h == fnArgs.hrefs[k]
            IN (/\ h.hash # ""
                /\ getBaseDomain(h.host) = getBaseDomain(fnArgs.url.host)
                /\ ~skipExtension(h.path))
               => \E m \in DOMAIN fnRet : fnRet[m] = [host |-> h.host, path |-> h.path]

\* C26 (as claimed): with the same answer of every proxy for every URL, the
\* scan of a site on an instance that scanned another site before returns
\* the site result a fresh instance (proxyIndex 0) returns.
C26_NoLeakBetweenSiteScans ==
    fnName = "scanWebsite" =>
        fnRet.result = scanWebsiteOnePage(fnArgs.page, fnArgs.url, 0,
                                          fnArgs.works).result

C24_ContextFailureHalts ==
    engine \in PwEngines =>
        \A k \in DOMAIN siteLog :
            siteLog[k].threw /\ siteLog[k].stage = "context" =>
                /\ Len(siteLog) = k
                /\ \A j \in active : j <= k

\* C25 (as claimed): in scanPortal every entry of the work list, and every
\* entry a unit of the page budget was spent on, has a URL that parses.
C25_NoUnparsableEntry ==
    engine = "client2" =>
        /\ \A k \in DOMAIN toVisit : Parses(toVisit[k].url)
        /\ \A e \in procLog : Parses(e.url)

\* The work list is ordered by (API-looking URL first, then ascending depth).
OrderedByApiThenDepth(queue) ==
    \A a, b \in DOMAIN queue :
        a < b =>
            /\ isApiRelatedUrl(queue[b].url) => isApiRelatedUrl(queue[a].url)
            /\ isApiRelatedUrl(queue[a].url) = isApiRelatedUrl(queue[b].url)
                  => queue[a].depth <= queue[b].depth

\* The entries of the work list that are equal to e on both keys.
SameKeys(queue, e) ==
    SelectSeq(queue, LAMBDA x : /\ isApiRelatedUrl(x.url) = isApiRelatedUrl(e.url)
                                /\ x.depth = e.depth)

\* C27: in scanWebsite the work list is, after every step, ordered by
\* (API-looking URL first, then ascending depth), so every dequeue takes an
\* API-looking entry when one is pending and one of least depth among its
\* likes; and when a page's links are enqueued, the entries equal on both
\* keys that were pending stay ahead of the new ones, in their order.
C27_WorkListOrdered ==
    [][ engine = "client1" =>
           /\ OrderedByApiThenDepth(toVisit')
           /\ pc = "fetching" /\ pc' = "loop" =>
                 \A k \in DOMAIN toVisit' :
                     IsPrefix(SameKeys(toVisit, toVisit'[k]),
                              SameKeys(toVisit', toVisit'[k])) ]_vars

\* A work list of scanWebsite, after the links of a page were enqueued,
\* holding an API-looking entry ahead of an entry that is not.
C27_Witness ==
    /\ engine = "client1" /\ pc = "loop" /\ pagesScanned >= 1
    /\ \E a, b \in DOMAIN toVisit :
          /\ a < b
          /\ isApiRelatedUrl(toVisit[a].url)
          /\ ~isApiRelatedUrl(toVisit[b].url)

\* C29 (as claimed): in the Playwright crawlSite, while a page whose URL is
\* not API-related is being fetched, no entry with an API-related URL that
\* is not yet visited is pending in the work list.
C29_ApiEntriesServedFirst ==
    (engine \in PwEngines /\ pc = "fetching" /\ ~isApiRelatedUrlPw(cur.url)) =>
        \A k \in DOMAIN toVisit :
            isApiRelatedUrlPw(toVisit[k].url) => toVisit[k].url \in visited

\* C30: the Playwright crawlSite dequeues entries of non-decreasing depth:
\* the entry it takes is at least as deep as the one before it and no deeper
\* than any entry still pending.
C30_BreadthFirst ==
    [][ (engine \in PwEngines /\ pc = "loop" /\ pc' = "newpage") =>
           /\ cur.depth <= cur'.depth
           /\ \A k \in DOMAIN toVisit' : cur'.depth <= toVisit'[k].depth ]_vars

\* A page of depth 1 was loaded and its links enqueued: entries of depth 1
\* and of depth 2 are pending, and the budget allows the next dequeue.
C30_Witness ==
    /\ engine \in PwEngines /\ pc = "loop" /\ cur.depth = 1 /\ loopCondition
    /\ \E a, b \in DOMAIN toVisit :
          /\ toVisit[a].depth = 1 /\ toVisit[a].url \notin visited
          /\ toVisit[b].depth = 2 /\ toVisit[b].url \notin visited

\* C31: one call of fetchWithProxy of the second engine asks the proxies in
\* list order, each at most once and never more than there are: it stops at
\* the first proxy that answers, and throws only when every proxy failed.
C31_Proxies2InOrderOnce ==
    fnName = "fetchWithProxy2" =>
        LET c == fnRet.contacted
        IN /\ Len(c) \in 1..NumProxies2
           /\ \A k \in DOMAIN c : c[k] = k - 1
           /\ \A k \in 1..(Len(c) - 1) : c[k] \notin fnArgs.works
           /\ fnRet.ok <=> c[Len(c)] \in fnArgs.works
           /\ ~fnRet.ok => Len(c) = NumProxies2 /\ fnArgs.works = {}

\* The first proxy failed, the second answered, and the third, which would
\* have answered too, was not asked.
C31_Witness ==
    /\ fnName = "fetchWithProxy2"
    /\ fnRet.ok /\ fnRet.contacted = <<0, 1>> /\ 2 \in fnArgs.works

\* C32 (as claimed): a call of fetchWithProxy of the first engine fails only
\* if every proxy fails for the URL; a page the first proxy delivers is
\* fetched.
C32_Proxies1TriedInSequence ==
    fnName = "fetchWithProxy1" =>
        /\ ~fnRet.ok => fnArgs.works = {}
        /\ 0 \in fnArgs.works => fnRet.ok

\* C40 (as claimed): in every report the total equals the number of records
\* of its apis list: totalApisFound for the client engines, totalApis for
\* the inventory the Playwright scrape writes.
C40_TotalEqualsLength ==
    pc = "done" =>
        IF engine \in ClientEngines
        THEN report.totalApisFound = Len(report.apis)
        ELSE report.totalApis = Len(report.apis)

\* C33 (as claimed): every URL scanPortal fetches has the hostname of the
\* start URL (an entry without URL, which names no host, is left aside).
C33_FetchedOnStartHost ==
    engine = "client2" =>
        \A e \in procLog : Parses(e.url) => e.url.host = urls[i].host

\* C39 (as claimed): in the Playwright scrapers at most one page is open,
\* none is open when the next entry is dequeued, no context of a site is
\* open once its crawlSite has returned or thrown, and the browser is closed
\* when the inventory is written.
C39_ResourcesReleased ==
    engine \in PwEngines =>
        /\ openPages <= 1
        /\ pc = "loop" => openPages = 0
        /\ pc \in {"idle", "done"} => openPages = 0 /\ openContexts = 0
        /\ pc = "done" => ~browserOpen

\* The entry the next pass of the loop takes from the work list.
Dequeued == IF engine = "client2" THEN Head(sortToVisit2(toVisit)) ELSE Head(toVisit)
\* How often an entry is in a work list.
Count(queue, x) == Len(SelectSeq(queue, LAMBDA y : y = x))

\* C34: a pass of a crawl loop that dequeues an entry whose URL is visited
\* leaves pagesScanned, visited, the collected apis and apiRelatedPages as
\* they are, starts no fetch, and takes only that entry from the work list.
C34_SkipVisitedChangesOnlyWorkList ==
    [][ (pc = "loop" /\ loopCondition /\ Dequeued.url \in visited) =>
           /\ pc' = "loop"
           /\ pagesScanned' = pagesScanned /\ visited' = visited
           /\ discoveredApis' = discoveredApis
           /\ apiRelatedPages' = apiRelatedPages
           /\ inFlight' = inFlight /\ fetchCount' = fetchCount
           /\ Len(toVisit') = Len(toVisit) - 1
           /\ \A k \in DOMAIN toVisit :
                 Count(toVisit', toVisit[k]) =
                    Count(toVisit, toVisit[k]) - (IF toVisit[k] = Dequeued THEN 1 ELSE 0)
      ]_vars

\* The loop is about to dequeue an entry whose URL is visited, with another
\* entry pending behind it.
C34_Witness ==
    /\ pc = "loop" /\ loopCondition /\ Dequeued.url \in visited
    /\ Len(toVisit) >= 2 /\ pagesScanned >= 1

\* C35: every site crawl that has started ends, with a site result for its
\* seed pushed.
C35_CrawlTerminates ==
    (active # {}) ~> (active = {} /\ Len(scanResults) = i - 1)

\* A crawl whose loop ran over two pages and had a page fail has returned.
C35_Witness ==
    /\ pc = "idle" /\ Len(scanResults) >= 1
    /\ scanResults[1].status = "success" /\ scanResults[1].pagesScanned >= 2
    /\ siteLog[1].failed

\* C36 (as claimed): in the Playwright crawlSite the number of pages whose
\* load was attempted in one site crawl is at most maxPagesPerSite.
C36_PwLoadsWithinBudget ==
    engine \in PwEngines =>
        Cardinality(visited \ (IF pc = "newpage" THEN {cur.url} ELSE {})) <= maxPages

\* The number of fetches this crawl started.
FetchesStarted ==
    LET S[T \in SUBSET AllUrls] ==
            IF T = {} THEN 0
            ELSE LET u == CHOOSE v \in T : TRUE
                 IN  fetchCount[u] + S[T \ {u}]
    IN S[AllUrls]

\* C37: at the top of every pass of a client crawl loop, pagesScanned is the
\* number of visited URLs and the number of fetches started, failed fetches
\* included.
C37_CountEqualsVisited ==
    (engine \in ClientEngines /\ pc = "loop") =>
        /\ pagesScanned = Cardinality(visited)
        /\ pagesScanned = FetchesStarted

\* A client crawl at the top of its loop after two pages, one of which
\* failed to be fetched.
C37_Witness ==
    /\ engine \in ClientEngines /\ pc = "loop"
    /\ pagesScanned >= 2 /\ pageFailures >= 1

\* C38: every entry of a work list has depth <= maxDepth, and it is the start
\* entry at depth 0 or was added at the depth of the page in hand plus one;
\* so the entry a pass dequeues is never deeper than maxDepth.
C38_EntriesWithinDepth ==
    [][ \A k \in DOMAIN toVisit' :
           /\ toVisit'[k].depth <= maxDepth
           /\ \/ \E j \in DOMAIN toVisit : toVisit[j] = toVisit'[k]
              \/ pc = "idle" /\ toVisit'[k].depth = 0 /\ toVisit'[k].url = urls[i]
              \/ pc = "fetching" /\ toVisit'[k].depth = cur.depth + 1 ]_vars

\* The loop is about to dequeue an entry at maxDepth, which the depth test
\* lets pass.
C38_Witness ==
    /\ pc = "loop" /\ loopCondition /\ maxDepth >= 1
    /\ Dequeued.depth = maxDepth /\ Dequeued.url \notin visited

====
